---- MODULE Spec2Model ----
(***************************************************************************)
(* NanoGPT model browser: the two page controllers of static/js.           *)
(*   ModelBrowser   (app.js)     - model list, search, type filter, views, *)
(*                                 auto-refresh                            *)
(*   CostComparison (compare.js) - cost leaderboard, provider filter, sort *)
(* A page holds one controller; `page` says which one was constructed.     *)
(* Both classes use the same field names (models, filteredModels) and the  *)
(* same element ids (loadingState, errorState, emptyState), so one set of  *)
(* variables carries them.                                                 *)
(* JavaScript strings that the code inspects (toLowerCase, trim, includes, *)
(* localeCompare) are sequences of one-character strings.                  *)
(***************************************************************************)
EXTENDS Integers, Sequences, FiniteSets, TLC

VARIABLES
    page,                 \* "browser" (app.js) or "compare" (compare.js)
    models,               \* this.models
    filteredModels,       \* this.filteredModels
    loadingState,         \* #loadingState is displayed
    errorState,           \* #errorState is displayed
    emptyState,           \* #emptyState is displayed
    errorMessage,         \* #errorMessage textContent
    modelsGrid,           \* #modelsGrid innerHTML: the cards
    modelsList,           \* #modelsList innerHTML: the cards
    currentView,          \* this.currentView
    gridDisplay,          \* #modelsGrid style.display ("": not set by script)
    listDisplay,          \* #modelsList style.display ("": not set by script)
    gridViewBtnActive,    \* #gridViewBtn has class 'active'
    listViewBtnActive,    \* #listViewBtn has class 'active'
    searchInput,          \* #searchInput value
    filterSelect,         \* #filterSelect value
    searchTimeout,        \* this.searchTimeout: id of the last timer armed
    timers,               \* the browser's pending setTimeout timers (ids)
    autoRefreshInterval,  \* this.autoRefreshInterval
    intervals,            \* the browser's active setInterval timers (ids)
    timerSeq,             \* the id the browser gave the last timer it created
    autoRefreshChecked,   \* #autoRefresh checked
    localStorage,         \* window.localStorage: key -> value or NULL
    inflight,             \* fetches issued and not yet answered
    nextRequest,          \* number of the next fetch to be issued
    currentSort,          \* CostComparison.currentSort
    currentProviderFilter,\* CostComparison.currentProviderFilter
    leaderboardContent,   \* #leaderboardContent innerHTML: the rows
    leaderboardContainer, \* #leaderboardContainer is displayed
    modelCount,           \* #modelCount textContent
    avgCost,              \* #avgCost textContent: <<total cost, models>>
    lastArrived,          \* history: the successful response that arrived last
    searchCalls,          \* history: number of handleSearch calls so far
    settingsModal,        \* #settingsModal is displayed
    apiKeyInput,          \* #apiKeyInput value
    notification,         \* the notification showNotification created last
    modelModal,           \* #modelModal is displayed
    modalTitle,           \* #modalTitle textContent
    modalLoading,         \* #modalLoading is displayed
    modalContentShown,    \* #modalContent is displayed
    modalContent,         \* #modalContent innerHTML
    detailInflight,       \* fetches of /api/models/<id> not yet answered
    nextDetail,           \* number of the next detail fetch to be issued
    lastClicked,          \* history: the card clicked last
    lastDetail            \* history: the detail response that arrived last

vars == <<page, models, filteredModels, loadingState, errorState, emptyState,
          errorMessage, modelsGrid, modelsList, currentView, gridDisplay,
          listDisplay, gridViewBtnActive, listViewBtnActive, searchInput,
          filterSelect, searchTimeout, timers, autoRefreshInterval, intervals,
          timerSeq, autoRefreshChecked, localStorage, inflight, nextRequest,
          currentSort, currentProviderFilter, leaderboardContent, leaderboardContainer,
          modelCount, avgCost, lastArrived, searchCalls, settingsModal,
          apiKeyInput, notification, modelModal, modalTitle, modalLoading,
          modalContentShown, modalContent, detailInflight, nextDetail,
          lastClicked, lastDetail>>

browserVars == <<currentView, gridDisplay, listDisplay, gridViewBtnActive,
                 listViewBtnActive, searchInput, filterSelect, searchTimeout,
                 timers, autoRefreshInterval, intervals, autoRefreshChecked,
                 localStorage, modelsGrid, modelsList, timerSeq>>

compareVars == <<currentSort, currentProviderFilter, leaderboardContent,
                 leaderboardContainer, modelCount, avgCost>>

viewVars == <<currentView, gridDisplay, listDisplay, gridViewBtnActive,
              listViewBtnActive>>

searchVars == <<searchInput, searchTimeout, timers>>

refreshVars == <<autoRefreshInterval, intervals, autoRefreshChecked,
                 localStorage>>

panelVars == <<loadingState, errorState, emptyState, errorMessage>>

settingsVars == <<settingsModal, apiKeyInput>>

detailVars == <<modelModal, modalTitle, modalLoading, modalContentShown,
                modalContent, detailInflight, nextDetail, lastClicked,
                lastDetail>>

\* localStorage.getItem of a key that is not stored
NULL == "null"
\* the entry 'nanogpt_api_key' of local storage: absent, or a stored string
NoItem == [stored |-> FALSE, value |-> <<>>]
Item(v) == [stored |-> TRUE, value |-> v]
\* a timer handle that is null: timer ids are positive
NoTimer == 0

(***************************************************************************)
(* Bounds of the model.                                                    *)
(***************************************************************************)
\* longest model list a response of /api/models carries
MaxModels == 1
\* longest model list a response of /api/compare/models carries
MaxCompareModels == 3
\* longest model list the search and filter functions are applied to
MaxFilterModels == 2
\* longest answer in which a model may occur twice
MaxRepeatModels == 3
\* fetches one page issues in a run
MaxRequests == 2
\* timers (timeouts and intervals) the browser page creates in a run
MaxTimerId == 3
\* fetches of a model's details one page issues in a run
MaxDetails == 2

(***************************************************************************)
(* JavaScript strings.                                                     *)
(***************************************************************************)
Uppers == <<"A","B","C","D","E","F","G","H","I","J","K","L","M",
            "N","O","P","Q","R","S","T","U","V","W","X","Y","Z">>
Lowers == <<"a","b","c","d","e","f","g","h","i","j","k","l","m",
            "n","o","p","q","r","s","t","u","v","w","x","y","z">>

ToLowerChar(c) ==
    IF \E i \in 1..26 : Uppers[i] = c
    THEN Lowers[CHOOSE i \in 1..26 : Uppers[i] = c]
    ELSE c

\* String.prototype.toLowerCase
toLowerCase(s) == [i \in 1..Len(s) |-> ToLowerChar(s[i])]

IsSpace(c) == c \in {" ", "\t", "\n"}

\* String.prototype.trim
trim(s) ==
    IF \A i \in 1..Len(s) : IsSpace(s[i])
    THEN <<>>
    ELSE LET first == CHOOSE i \in 1..Len(s) :
                         /\ ~IsSpace(s[i])
                         /\ \A j \in 1..(i-1) : IsSpace(s[j])
             last  == CHOOSE i \in 1..Len(s) :
                         /\ ~IsSpace(s[i])
                         /\ \A j \in (i+1)..Len(s) : IsSpace(s[j])
         IN  SubSeq(s, first, last)

\* String.prototype.includes
includes(s, t) ==
    \E i \in 0..(Len(s) - Len(t)) : SubSeq(s, i+1, i+Len(t)) = t

\* a || b on strings: the empty string, null and undefined are falsy
OrElse(a, b) == IF a = <<>> THEN b ELSE a

\* rank of a character in collation order (lower-case letters, then the rest)
CharRank(c) ==
    IF \E i \in 1..26 : Lowers[i] = c
    THEN CHOOSE i \in 1..26 : Lowers[i] = c
    ELSE 0

\* String.prototype.localeCompare, on lower-case words: -1, 0 or 1
RECURSIVE localeCompare(_, _)
localeCompare(a, b) ==
    IF a = <<>> /\ b = <<>> THEN 0
    ELSE IF a = <<>> THEN -1
    ELSE IF b = <<>> THEN 1
    ELSE IF CharRank(Head(a)) < CharRank(Head(b)) THEN -1
    ELSE IF CharRank(Head(a)) > CharRank(Head(b)) THEN 1
    ELSE localeCompare(Tail(a), Tail(b))

\* all sequences over S of length at most n
SeqsUpTo(S, n) == UNION {[1..k -> S] : k \in 0..n}


(***************************************************************************)
(* String literals of the code.                                            *)
(***************************************************************************)
s_empty    == <<>>
s_chatgpt  == <<"c","h","a","t","g","p","t">>
s_gpt      == <<"g","p","t">>
s_claude   == <<"c","l","a","u","d","e">>
s_gemini   == <<"g","e","m","i","n","i">>
s_deepseek == <<"d","e","e","p","s","e","e","k">>
s_other    == <<"o","t","h","e","r">>
s_all      == <<"a","l","l">>
s_ChatGPT  == <<"C","h","a","t","G","P","T">>
s_Claude   == <<"C","l","a","u","d","e">>
s_Gemini   == <<"G","e","m","i","n","i">>
s_DeepSeek == <<"D","e","e","p","S","e","e","k">>
s_Other    == <<"O","t","h","e","r">>
s_openrouter == <<"o","p","e","n","r","o","u","t","e","r">>
s_nanogpt    == <<"n","a","n","o","g","p","t">>

(***************************************************************************)
(* Model records of /api/models: id, name, description, owned_by.  A name  *)
(* or description the API leaves out is the empty string (both are falsy). *)
(***************************************************************************)
Model(id, name, description, owned_by) ==
    [id |-> id, name |-> name, description |-> description,
     owned_by |-> owned_by]

M_gpt      == Model(<<"g","p","t","4">>, <<>>, <<>>, <<"o","a","i">>)
M_claude   == Model(s_claude, s_Claude, <<"f","a","s","t">>, <<"a","n","t">>)
M_gemini   == Model(s_gemini, <<"G","e","m">>, <<>>, <<"g","o","o">>)
M_deepseek == Model(s_deepseek, <<>>, <<"a"," ","g","p","t">>, <<"d","s">>)
M_llama    == Model(<<"l","l","a","m","a">>, <<"L","l","a","m","a">>,
                    <<"G","P","T"," ","l","i","k","e">>, <<"m","e","t","a">>)
M_upper    == Model(<<"G","P","T">>, <<"B","i","g">>, <<>>, <<"o","a","i">>)
M_both     == Model(<<"c","l","a","u","d","e","-","g","p","t">>, <<>>, <<>>,
                    <<"m","i","x">>)

\* the models the /api/models responses of a behaviour are made of
ModelPool == {M_gpt, M_claude}
\* the models the search and filter functions are applied to
FilterPool == {M_gpt, M_claude, M_gemini, M_deepseek, M_llama, M_upper, M_both}

\* what the user types into the search box
FilterQueries == {<<>>, <<" ">>, <<" ","G","P","T"," ">>, <<"z","z">>,
                  <<"f","a","s","t">>, <<"O","A","I">>, s_claude}

\* the options of #filterSelect
FilterTypes == {s_all, s_chatgpt, s_claude, s_gemini, s_deepseek, s_other}
Views == {"grid", "list"}

(***************************************************************************)
(* ModelBrowser: pure functions.                                           *)
(***************************************************************************)
\* getModelType(modelId), app.js:375-387
getModelType(modelId) ==
    IF includes(modelId, s_chatgpt) \/ includes(modelId, s_gpt) THEN s_ChatGPT
    ELSE IF includes(modelId, s_claude) THEN s_Claude
    ELSE IF includes(modelId, s_gemini) THEN s_Gemini
    ELSE IF includes(modelId, s_deepseek) THEN s_DeepSeek
    ELSE s_Other

\* searchMatches with the fields compared as they are, not lower-cased
searchMatches_caseSensitive(model, searchTerm) ==
    \/ includes(OrElse(model.name, model.id), searchTerm)
    \/ includes(model.id, searchTerm)
    \/ includes(OrElse(model.description, s_empty), searchTerm)
    \/ includes(model.owned_by, searchTerm)

\* the callback of handleSearch's filter, app.js:330-340
searchMatches(model, searchTerm) ==
    LET name        == toLowerCase(OrElse(model.name, model.id))
        id          == toLowerCase(model.id)
        description == toLowerCase(OrElse(model.description, s_empty))
        provider    == toLowerCase(model.owned_by)
    IN  \/ includes(name, searchTerm)
        \/ includes(id, searchTerm)
        \/ includes(description, searchTerm)
        \/ includes(provider, searchTerm)

\* the value handleSearch(query) gives this.filteredModels, app.js:325-341
searchResult(ms, query) ==
    LET searchTerm == trim(toLowerCase(query))
    IN  IF searchTerm = s_empty
        THEN ms
        ELSE SelectSeq(ms, LAMBDA model : searchMatches(model, searchTerm))

\* filterMatches with the type name compared as it is, not lower-cased
filterMatches_caseSensitive(model, filterType) ==
    getModelType(model.id) = filterType

\* the callback of handleFilter's filter, app.js:350-353
filterMatches(model, filterType) ==
    LET modelType == getModelType(model.id)
    IN  toLowerCase(modelType) = filterType

\* the value handleFilter(filterType) gives this.filteredModels, app.js:347-354
filterResult(ms, filterType) ==
    IF filterType = s_all
    THEN ms
    ELSE SelectSeq(ms, LAMBDA model : filterMatches(model, filterType))

\* createModelCard(model), app.js:144-195: the card's data-model-id, title,
\* type badge and provider
createModelCard(model) ==
    [modelId  |-> model.id,
     title    |-> OrElse(model.name, model.id),
     type     |-> getModelType(model.id),
     provider |-> model.owned_by]

Cards(fm) == [i \in 1..Len(fm) |-> createModelCard(fm[i])]


(***************************************************************************)
(* CostComparison: model records of /api/compare/models and pure functions.*)
(* A completion price is a whole number of price units; pricing NULL is a  *)
(* model without pricing.                                                  *)
(***************************************************************************)
\* model.name of a model that has none: the page shows model.id in its place,
\* compare.js:169
NoName == <<>>
\* what String.prototype.localeCompare compares with when its argument is
\* undefined
s_undefined == <<"u","n","d","e","f","i","n","e","d">>

CModel(id, name, provider, pricing) ==
    [id |-> id, name |-> name, provider |-> provider, pricing |-> pricing]

\* model.pricing: absent, or an object whose completion is null or a number
NoPricing     == [kind |-> "absent", completion |-> 0]
NullPricing   == [kind |-> "null", completion |-> 0]
Pricing(cost) == [kind |-> "number", completion |-> cost]

K_beta  == CModel(<<"m","1">>, <<"b","e","t","a">>, s_openrouter, Pricing(5))
K_alpha == CModel(<<"m","2">>, <<"a","l","p","h","a">>, s_nanogpt, Pricing(2))
K_free  == CModel(<<"m","3">>, NoName, s_nanogpt, NoPricing)
K_zero  == CModel(<<"m","4">>, <<"b","e","t","a">>, s_openrouter, Pricing(0))
K_null  == CModel(<<"m","5">>, <<"c","a","t">>, s_nanogpt, NullPricing)

ComparePool == {K_beta, K_alpha, K_free}
\* the models whose completion cost is 0 or null
FreePool == {K_zero, K_null}

SortTypes == {"cost", "cost-desc", "provider", "name"}
ProviderFilters == {s_all, s_openrouter, s_nanogpt}

\* getCostValue(model), compare.js:112-118
getCostValue(model) ==
    IF model.pricing.kind = "absent" THEN 0
    ELSE IF model.pricing.kind = "null" \/ model.pricing.completion = 0
    THEN 0
    ELSE model.pricing.completion

\* the argument b.name of a.name.localeCompare(b.name), compare.js:105
nameArgument(name) == IF name = NoName THEN s_undefined ELSE name

\* the comparator of applySorting, compare.js:96-108; case 'name' is
\* evaluated only for a model a that has a name, see sortThrows
sortCompare(a, b, sortType) ==
    CASE sortType = "cost"      -> getCostValue(a) - getCostValue(b)
      [] sortType = "cost-desc" -> getCostValue(b) - getCostValue(a)
      [] sortType = "provider"  -> localeCompare(a.provider, b.provider)
      [] sortType = "name"      -> localeCompare(a.name, nameArgument(b.name))
      [] OTHER                  -> 0

\* what a sort that completes has learnt about a and b: it has called the
\* comparator with the model that has a name as a
sortOrder(a, b, sortType) ==
    IF sortType = "name" /\ a.name = NoName /\ b.name # NoName
    THEN 0 - sortCompare(b, a, sortType)
    ELSE sortCompare(a, b, sortType)

\* Array.prototype.sort is stable: x goes after the elements not above it
RECURSIVE InsertSorted(_, _, _)
InsertSorted(x, sorted, sortType) ==
    IF sorted = <<>> THEN <<x>>
    ELSE IF sortOrder(Head(sorted), x, sortType) > 0 THEN <<x>> \o sorted
    ELSE <<Head(sorted)>> \o InsertSorted(x, Tail(sorted), sortType)

RECURSIVE StableSort(_, _)
StableSort(s, sortType) ==
    IF s = <<>> THEN <<>>
    ELSE InsertSorted(s[Len(s)], StableSort(SubSeq(s, 1, Len(s) - 1), sortType),
                      sortType)

\* a.name.localeCompare(...), compare.js:105, is a TypeError when a has no
\* name.  Sorting two or more models by name compares each of them with
\* another one, and which of the two the engine passes as a is its choice:
\* with a single model without a name among them the sort may throw or
\* complete, without any named one it throws.
sortThrows(fm, sortType) ==
    IF sortType # "name" \/ Len(fm) < 2
          \/ \A i \in 1..Len(fm) : fm[i].name # NoName
    THEN {FALSE}
    ELSE IF \A i \in 1..Len(fm) : fm[i].name = NoName
    THEN {TRUE}
    ELSE BOOLEAN

\* applySorting(sortType) on this.filteredModels when the sort completes,
\* compare.js:95-110; a sort that throws leaves the array as it was
applySorting(fm, sortType) == StableSort(fm, sortType)

\* the provider filter of applyFilters, compare.js:76-82; any other value
\* of the filter leaves this.filteredModels as it is
providerFiltered(ms, fm, providerFilter) ==
    IF providerFilter = s_all THEN ms
    ELSE IF providerFilter = s_openrouter
    THEN SelectSeq(ms, LAMBDA model : model.provider = s_openrouter)
    ELSE IF providerFilter = s_nanogpt
    THEN SelectSeq(ms, LAMBDA model : model.provider = s_nanogpt)
    ELSE fm

\* one row of renderLeaderboard, compare.js:153-192
leaderboardRow(model, index) ==
    [rank     |-> index + 1,
     title    |-> OrElse(model.name, model.id),
     modelId  |-> model.id,
     provider |-> model.provider,
     cost     |-> getCostValue(model)]

Rows(fm) == [i \in 1..Len(fm) |-> leaderboardRow(fm[i], i - 1)]

RECURSIVE SumCost(_)
SumCost(ms) == IF ms = <<>> THEN 0 ELSE getCostValue(Head(ms)) + SumCost(Tail(ms))

(***************************************************************************)
(* Panels and rendering, ModelBrowser.                                     *)
(***************************************************************************)
\* showLoading(), app.js:402-408
showLoading ==
    /\ loadingState' = TRUE
    /\ errorState' = FALSE
    /\ emptyState' = FALSE
    /\ modelsGrid' = <<>>
    /\ modelsList' = <<>>

\* showError without its hideLoading()
showError_keepsLoading(message) ==
    /\ UNCHANGED loadingState
    /\ errorState' = TRUE
    /\ errorMessage' = message

\* showError(message), app.js:414-418 and compare.js:220-224
showError(message) ==
    /\ loadingState' = FALSE
    /\ errorState' = TRUE
    /\ errorMessage' = message

\* renderModels(), app.js:127-142, with showEmpty, hideEmpty, hideLoading
renderModels(fm) ==
    IF Len(fm) = 0
    THEN /\ loadingState' = FALSE
         /\ emptyState' = TRUE
         /\ UNCHANGED <<modelsGrid, modelsList>>
    ELSE /\ emptyState' = FALSE
         /\ loadingState' = FALSE
         /\ modelsGrid' = Cards(fm)
         /\ modelsList' = Cards(fm)

(***************************************************************************)
(* Panels and rendering, CostComparison.                                   *)
(***************************************************************************)
\* showLoading(), compare.js:208-214
CC_showLoading ==
    /\ loadingState' = TRUE
    /\ errorState' = FALSE
    /\ emptyState' = FALSE
    /\ leaderboardContainer' = FALSE
    /\ leaderboardContent' = <<>>

\* renderLeaderboard(), compare.js:144-197, with showEmpty, hideEmpty,
\* hideLoading
renderLeaderboard(fm) ==
    IF Len(fm) = 0
    THEN /\ loadingState' = FALSE
         /\ emptyState' = TRUE
         /\ leaderboardContainer' = FALSE
         /\ UNCHANGED leaderboardContent
    ELSE /\ emptyState' = FALSE
         /\ loadingState' = FALSE
         /\ leaderboardContent' = Rows(fm)
         /\ leaderboardContainer' = TRUE

\* applyFilters(), compare.js:74-87; threw: applySorting throws, and
\* renderLeaderboard is not reached
applyFilters(ms, providerFilter, sortType, threw) ==
    LET fm == providerFiltered(ms, filteredModels, providerFilter)
    IN  IF threw
        THEN /\ filteredModels' = fm
             /\ UNCHANGED <<leaderboardContent, leaderboardContainer>>
        ELSE /\ filteredModels' = applySorting(fm, sortType)
             /\ renderLeaderboard(applySorting(fm, sortType))


(***************************************************************************)
(* Fetches.  A request in flight remembers its number and, as history, the *)
(* event that issued it and the lists the controller held at that moment.  *)
(* The server's answer is chosen when it arrives; answers arrive in any    *)
(* order.                                                                  *)
(***************************************************************************)
Request(n, trigger) ==
    [id |-> n, trigger |-> trigger, issuedModels |-> models,
     issuedFiltered |-> filteredModels]

\* history: the successful response that arrived last, and the newest request
\* a successful response has arrived for so far
NoResponse == [id |-> 0, data |-> <<>>, newest |-> 0]
Arrived(r, data) ==
    [id |-> r.id, data |-> data,
     newest |-> IF r.id > lastArrived.newest THEN r.id ELSE lastArrived.newest]

\* the error texts a response with success=false carries ("" when it has none)
ServerErrors == {"", "Invalid API key"}

\* window.setTimeout / setInterval hand out increasing ids
FreshId(seq) == seq + 1

(***************************************************************************)
(* ModelBrowser: loading.                                                  *)
(***************************************************************************)
\* loadModels() up to the await of fetch('/api/models'), app.js:106-110
loadModels(trigger) ==
    /\ page = "browser"
    /\ nextRequest <= MaxRequests
    /\ showLoading
    /\ inflight' = inflight \cup {Request(nextRequest, trigger)}
    /\ nextRequest' = nextRequest + 1
    /\ UNCHANGED <<notification, settingsVars, detailVars>>
    /\ UNCHANGED <<page, timerSeq, models, filteredModels, errorMessage, viewVars,
                   searchVars, filterSelect, refreshVars, compareVars,
                   lastArrived, searchCalls>>

\* click on #refreshBtn, app.js:71
RefreshClick == loadModels("refreshClick")

\* click on #retryBtn, app.js:73
RetryClick == loadModels("retryClick")

\* a tick of the auto-refresh interval, app.js:486-488
AutoRefreshTick ==
    /\ intervals # {}
    /\ loadModels("autoRefreshTick")

\* loadModels() that drops the response of a request older than one already
\* answered
LoadModelsSuccess_latestOnly(r, data) ==
    /\ page = "browser"
    /\ r \in inflight
    /\ inflight' = inflight \ {r}
    /\ IF r.id > lastArrived.newest
       THEN /\ models' = data
            /\ filteredModels' = data
            /\ renderModels(data)
            /\ errorState' = FALSE
       ELSE UNCHANGED <<models, filteredModels, loadingState, emptyState,
                        modelsGrid, modelsList, errorState>>
    /\ lastArrived' = Arrived(r, data)
    /\ UNCHANGED searchCalls
    /\ UNCHANGED <<notification, settingsVars, detailVars>>
    /\ UNCHANGED <<page, timerSeq, errorMessage, nextRequest, viewVars,
                   searchVars, filterSelect, refreshVars, compareVars>>

\* loadModels() after the awaits, data.success true, app.js:113-117
LoadModelsSuccess(r, data) ==
    /\ page = "browser"
    /\ r \in inflight
    /\ inflight' = inflight \ {r}
    /\ models' = data
    /\ filteredModels' = data
    /\ renderModels(data)
    /\ errorState' = FALSE
    /\ lastArrived' = Arrived(r, data)
    /\ UNCHANGED searchCalls
    /\ UNCHANGED <<notification, settingsVars, detailVars>>
    /\ UNCHANGED <<page, timerSeq, errorMessage, nextRequest, viewVars, searchVars,
                   filterSelect, refreshVars, compareVars>>

\* loadModels() that empties this.models when the server reports a failure
LoadModelsRejected_clearsModels(r, error) ==
    /\ page = "browser"
    /\ r \in inflight
    /\ inflight' = inflight \ {r}
    /\ models' = <<>>
    /\ showError(IF error # "" THEN error ELSE "Failed to load models")
    /\ UNCHANGED <<notification, settingsVars, detailVars>>
    /\ UNCHANGED <<page, timerSeq, filteredModels, emptyState, modelsGrid,
                   modelsList, nextRequest, viewVars, searchVars, filterSelect,
                   refreshVars, compareVars, lastArrived, searchCalls>>

\* loadModels() after the awaits, data.success false, app.js:118-120
LoadModelsRejected(r, error) ==
    /\ page = "browser"
    /\ r \in inflight
    /\ inflight' = inflight \ {r}
    /\ showError(IF error # "" THEN error ELSE "Failed to load models")
    /\ UNCHANGED <<notification, settingsVars, detailVars>>
    /\ UNCHANGED <<page, timerSeq, models, filteredModels, emptyState, modelsGrid,
                   modelsList, nextRequest, viewVars, searchVars, filterSelect,
                   refreshVars, compareVars, lastArrived, searchCalls>>

\* loadModels() whose catch block calls loadModels() again
LoadModelsThrows_retries(r) ==
    /\ page = "browser"
    /\ r \in inflight
    /\ nextRequest <= MaxRequests
    /\ inflight' = (inflight \ {r}) \cup {Request(nextRequest, "retryClick")}
    /\ nextRequest' = nextRequest + 1
    /\ showLoading
    /\ UNCHANGED <<notification, settingsVars, detailVars>>
    /\ UNCHANGED <<page, timerSeq, models, filteredModels, errorMessage,
                   viewVars, searchVars, filterSelect, refreshVars,
                   compareVars, lastArrived, searchCalls>>

\* loadModels(), fetch or response.json() throws, app.js:121-124
LoadModelsThrows(r) ==
    /\ page = "browser"
    /\ r \in inflight
    /\ inflight' = inflight \ {r}
    /\ showError("Network error. Please check your connection.")
    /\ UNCHANGED <<notification, settingsVars, detailVars>>
    /\ UNCHANGED <<page, timerSeq, models, filteredModels, emptyState, modelsGrid,
                   modelsList, nextRequest, viewVars, searchVars, filterSelect,
                   refreshVars, compareVars, lastArrived, searchCalls>>

(***************************************************************************)
(* ModelBrowser: search, filter, view.                                     *)
(***************************************************************************)
\* handleSearch(query), app.js:324-344
handleSearch(query) ==
    LET fm == searchResult(models, query)
    IN  /\ filteredModels' = fm
        /\ renderModels(fm)

\* handleFilter(filterType), app.js:346-357
handleFilter(filterType) ==
    LET fm == filterResult(models, filterType)
    IN  /\ filteredModels' = fm
        /\ renderModels(fm)

\* the input handler without its clearTimeout
debounce_noClear(pending, handle, seq) ==
    <<pending \cup {FreshId(seq)}, FreshId(seq)>>

\* the timers after the input handler's clearTimeout and setTimeout,
\* app.js:56-59: <<pending timers, this.searchTimeout>>
debounce(pending, handle, seq) ==
    LET cleared == pending \ {handle}
        id      == FreshId(seq)
    IN  <<cleared \cup {id}, id>>

\* 'input' event on #searchInput: the user changed the text to v, app.js:55-60
SearchInput(v) ==
    /\ page = "browser"
    /\ v # searchInput
    /\ timerSeq < MaxTimerId
    /\ searchInput' = v
    /\ timers' = debounce(timers, searchTimeout, timerSeq)[1]
    /\ searchTimeout' = debounce(timers, searchTimeout, timerSeq)[2]
    /\ timerSeq' = timerSeq + 1
    /\ UNCHANGED <<notification, settingsVars, detailVars>>
    /\ UNCHANGED <<page, models, filteredModels, panelVars, modelsGrid,
                   modelsList, viewVars, filterSelect, refreshVars, inflight,
                   nextRequest, compareVars, lastArrived, searchCalls>>

\* a search timer expires: its callback reads the box and calls handleSearch,
\* app.js:57-59
SearchTimerFires(t) ==
    /\ page = "browser"
    /\ t \in timers
    /\ timers' = timers \ {t}
    /\ handleSearch(searchInput)
    /\ searchCalls' = searchCalls + 1
    /\ UNCHANGED <<notification, settingsVars, detailVars>>
    /\ UNCHANGED <<page, timerSeq, models, errorState, errorMessage, viewVars,
                   searchInput, searchTimeout, filterSelect, refreshVars,
                   inflight, nextRequest, compareVars, lastArrived>>

\* 'change' event on #filterSelect: the user selected f, app.js:62-64
FilterChange(f) ==
    /\ page = "browser"
    /\ f # filterSelect
    /\ filterSelect' = f
    /\ handleFilter(f)
    /\ UNCHANGED <<notification, settingsVars, detailVars>>
    /\ UNCHANGED <<page, timerSeq, models, errorState, errorMessage, viewVars,
                   searchVars, refreshVars, inflight, nextRequest, compareVars,
                   lastArrived, searchCalls>>

\* setView that shows the chosen container and leaves the other one alone
setView_keepsOther(viewType) ==
    /\ currentView' = viewType
    /\ IF viewType = "grid"
       THEN /\ gridDisplay' = "grid"
            /\ gridViewBtnActive' = TRUE
            /\ UNCHANGED <<listDisplay, listViewBtnActive>>
       ELSE /\ listDisplay' = "grid"
            /\ listViewBtnActive' = TRUE
            /\ UNCHANGED <<gridDisplay, gridViewBtnActive>>

\* setView(viewType), app.js:359-373
setView(viewType) ==
    /\ currentView' = viewType
    /\ IF viewType = "grid"
       THEN /\ gridDisplay' = "grid"
            /\ listDisplay' = "none"
            /\ gridViewBtnActive' = TRUE
            /\ listViewBtnActive' = FALSE
       ELSE /\ gridDisplay' = "none"
            /\ listDisplay' = "grid"
            /\ gridViewBtnActive' = FALSE
            /\ listViewBtnActive' = TRUE

\* click on #gridViewBtn or #listViewBtn, app.js:67-68
ViewClick(viewType) ==
    /\ page = "browser"
    /\ setView(viewType)
    /\ UNCHANGED <<notification, settingsVars, detailVars>>
    /\ UNCHANGED <<page, timerSeq, models, filteredModels, panelVars, modelsGrid,
                   modelsList, searchVars, filterSelect, refreshVars, inflight,
                   nextRequest, compareVars, lastArrived, searchCalls>>

(***************************************************************************)
(* ModelBrowser: auto-refresh.  The operators give                         *)
(* <<active interval timers, this.autoRefreshInterval>>.                   *)
(***************************************************************************)
\* stopAutoRefresh(), app.js:491-496
stopAutoRefresh(active, handle) ==
    IF handle # NoTimer THEN <<active \ {handle}, NoTimer>>
    ELSE <<active, handle>>

\* startAutoRefresh without its stopAutoRefresh()
startAutoRefresh_noStop(active, handle, seq) ==
    <<active \cup {FreshId(seq)}, FreshId(seq)>>

\* startAutoRefresh(), app.js:484-489
startAutoRefresh(active, handle, seq) ==
    LET stopped == stopAutoRefresh(active, handle)
        id      == FreshId(seq)
    IN  <<stopped[1] \cup {id}, id>>

\* showNotification(message, type), app.js:506-543: the element appended to
\* the document
Notice(message, type) == [message |-> message, type |-> type]
NoNotice == Notice("", "")

\* String(enabled), as localStorage.setItem stores it
BoolString(b) == IF b THEN "true" ELSE "false"

\* toggleAutoRefresh(enabled), app.js:472-482
toggleAutoRefresh(enabled) ==
    LET timer == IF enabled
                 THEN startAutoRefresh(intervals, autoRefreshInterval, timerSeq)
                 ELSE stopAutoRefresh(intervals, autoRefreshInterval)
    IN  /\ localStorage' = [localStorage EXCEPT
                               !["auto_refresh"] = BoolString(enabled)]
        /\ intervals' = timer[1]
        /\ autoRefreshInterval' = timer[2]
        /\ timerSeq' = IF enabled THEN timerSeq + 1 ELSE timerSeq
        /\ notification' = IF enabled
                           THEN Notice("Auto-refresh enabled", "success")
                           ELSE Notice("Auto-refresh disabled", "info")

\* 'change' event on #autoRefresh: the user flipped the checkbox,
\* app.js:101-103
AutoRefreshChange ==
    /\ page = "browser"
    /\ timerSeq < MaxTimerId
    /\ autoRefreshChecked' = ~autoRefreshChecked
    /\ toggleAutoRefresh(~autoRefreshChecked)
    /\ UNCHANGED <<settingsVars, detailVars>>
    /\ UNCHANGED <<page, models, filteredModels, panelVars, modelsGrid,
                   modelsList, viewVars, searchVars, filterSelect, inflight,
                   nextRequest, compareVars, lastArrived, searchCalls>>

\* initializeSettings(), app.js:498-504: <<active interval timers, handle>>
initializeSettings(stored) ==
    IF stored = "true" THEN startAutoRefresh({}, NoTimer, 0)
    ELSE <<{}, NoTimer>>


(***************************************************************************)
(* CostComparison: loading, provider filter, sort.                         *)
(***************************************************************************)
\* loadComparisonData() up to the await of fetch, compare.js:53-57
loadComparisonData(trigger) ==
    /\ page = "compare"
    /\ nextRequest <= MaxRequests
    /\ CC_showLoading
    /\ inflight' = inflight \cup {Request(nextRequest, trigger)}
    /\ nextRequest' = nextRequest + 1
    /\ UNCHANGED <<notification, settingsVars, detailVars>>
    /\ UNCHANGED <<page, models, filteredModels, errorMessage, browserVars,
                   currentSort, currentProviderFilter, modelCount, avgCost,
                   lastArrived, searchCalls>>

\* click on #refreshBtn, compare.js:49
CC_RefreshClick == loadComparisonData("refreshClick")

\* click on #retryBtn, compare.js:50
CC_RetryClick == loadComparisonData("retryClick")

\* updateStats(), compare.js:199-206: <<#modelCount, #avgCost>>
updateStats(ms) == <<Len(ms), <<SumCost(ms), Len(ms)>> >>

\* loadComparisonData() after the awaits, data.success true, compare.js:60-64;
\* an exception of applyFilters is caught at compare.js:68-71
CC_LoadSuccess(r, data) ==
    /\ page = "compare"
    /\ r \in inflight
    /\ inflight' = inflight \ {r}
    /\ models' = data
    /\ \E threw \in sortThrows(providerFiltered(data, filteredModels,
                                                currentProviderFilter),
                                currentSort) :
          /\ applyFilters(data, currentProviderFilter, currentSort, threw)
          /\ IF threw
             THEN /\ showError("Network error. Please check your connection.")
                  /\ UNCHANGED <<emptyState, modelCount, avgCost>>
             ELSE /\ modelCount' = updateStats(data)[1]
                  /\ avgCost' = updateStats(data)[2]
                  /\ errorState' = FALSE
                  /\ UNCHANGED errorMessage
    /\ lastArrived' = Arrived(r, data)
    /\ UNCHANGED searchCalls
    /\ UNCHANGED <<notification, settingsVars, detailVars>>
    /\ UNCHANGED <<page, nextRequest, browserVars, currentSort,
                   currentProviderFilter>>

\* loadComparisonData() after the awaits, data.success false, compare.js:65-67
CC_LoadRejected(r, error) ==
    /\ page = "compare"
    /\ r \in inflight
    /\ inflight' = inflight \ {r}
    /\ showError(IF error # "" THEN error
                 ELSE "Failed to load comparison data")
    /\ UNCHANGED <<notification, settingsVars, detailVars>>
    /\ UNCHANGED <<page, models, filteredModels, emptyState, nextRequest,
                   browserVars, compareVars, lastArrived, searchCalls>>

\* loadComparisonData(), fetch or response.json() throws, compare.js:68-71
CC_LoadThrows(r) ==
    /\ page = "compare"
    /\ r \in inflight
    /\ inflight' = inflight \ {r}
    /\ showError("Network error. Please check your connection.")
    /\ UNCHANGED <<notification, settingsVars, detailVars>>
    /\ UNCHANGED <<page, models, filteredModels, emptyState, nextRequest,
                   browserVars, compareVars, lastArrived, searchCalls>>

\* 'change' event on #providerFilter, compare.js:43-46
ProviderFilterChange(p) ==
    /\ page = "compare"
    /\ p # currentProviderFilter
    /\ currentProviderFilter' = p
    /\ \E threw \in sortThrows(providerFiltered(models, filteredModels, p),
                                currentSort) :
          /\ applyFilters(models, p, currentSort, threw)
          /\ threw => UNCHANGED <<loadingState, emptyState>>
    /\ UNCHANGED <<notification, settingsVars, detailVars>>
    /\ UNCHANGED <<page, models, errorState, errorMessage, inflight,
                   nextRequest, browserVars, currentSort, modelCount, avgCost,
                   lastArrived, searchCalls>>

\* handleSort(sortType), compare.js:89-93; when applySorting throws,
\* renderLeaderboard is not reached
handleSort(sortType) ==
    /\ currentSort' = sortType
    /\ \E threw \in sortThrows(filteredModels, sortType) :
          IF threw
          THEN UNCHANGED <<filteredModels, loadingState, emptyState,
                           leaderboardContent, leaderboardContainer>>
          ELSE /\ filteredModels' = applySorting(filteredModels, sortType)
               /\ renderLeaderboard(applySorting(filteredModels, sortType))

\* 'change' event on #sortSelect, compare.js:39-41
SortChange(sortType) ==
    /\ page = "compare"
    /\ sortType # currentSort
    /\ handleSort(sortType)
    /\ UNCHANGED <<notification, settingsVars, detailVars>>
    /\ UNCHANGED <<page, models, errorState, errorMessage, inflight,
                   nextRequest, browserVars, currentProviderFilter, modelCount,
                   avgCost, lastArrived, searchCalls>>

(***************************************************************************)
(* ModelBrowser: settings modal and API key.                               *)
(***************************************************************************)
\* what the dialogs leave alone: the lists, the panels, the cards, the
\* controls of the list and the fetches of the list
listVars == <<page, models, filteredModels, panelVars, modelsGrid, modelsList,
              viewVars, searchVars, filterSelect, inflight, nextRequest,
              compareVars, lastArrived, searchCalls, timerSeq>>

timerVars == <<autoRefreshInterval, intervals>>

\* the character U+2022 of which the mask consists
Bullet == "*"
\* the number of bullets in the mask, app.js:446
MaskLength == 32
\* the mask the input shows in place of a stored key, app.js:446
Mask == [i \in 1..MaskLength |-> Bullet]

\* loadCurrentSettings(), app.js:442-452
loadCurrentSettings ==
    /\ apiKeyInput' = IF /\ localStorage["nanogpt_api_key"].stored
                         /\ localStorage["nanogpt_api_key"].value # <<>>
                      THEN Mask
                      ELSE apiKeyInput
    /\ autoRefreshChecked' = (localStorage["auto_refresh"] = "true")

\* showSettings(), app.js:433-436
showSettings ==
    /\ settingsModal' = TRUE
    /\ loadCurrentSettings

\* hideSettings(), app.js:438-440
hideSettings == settingsModal' = FALSE

\* a click on #settingsBtn that also stores the auto-refresh setting it shows
SettingsClick_persists ==
    /\ page = "browser"
    /\ showSettings
    /\ localStorage' = [localStorage EXCEPT !["auto_refresh"] =
                           BoolString(localStorage["auto_refresh"] = "true")]
    /\ UNCHANGED <<listVars, detailVars, timerVars, notification>>

\* click on #settingsBtn, app.js:72
SettingsClick ==
    /\ page = "browser"
    /\ showSettings
    /\ UNCHANGED <<listVars, detailVars, timerVars, localStorage,
                   notification>>

\* click on #closeSettingsModal, app.js:77
CloseSettingsClick ==
    /\ page = "browser"
    /\ settingsModal
    /\ hideSettings
    /\ UNCHANGED <<listVars, detailVars, refreshVars, apiKeyInput,
                   notification>>

\* click on the backdrop of #settingsModal, app.js:88-90
SettingsBackdropClick ==
    /\ page = "browser"
    /\ settingsModal
    /\ hideSettings
    /\ UNCHANGED <<listVars, detailVars, refreshVars, apiKeyInput,
                   notification>>

\* the user edits #apiKeyInput
ApiKeyTyped(v) ==
    /\ page = "browser"
    /\ v # apiKeyInput
    /\ apiKeyInput' = v
    /\ UNCHANGED <<listVars, detailVars, refreshVars, settingsModal,
                   notification>>

\* saveApiKey that stores whatever the input holds
saveApiKey_unchecked ==
    /\ localStorage' = [localStorage EXCEPT
                           !["nanogpt_api_key"] = Item(apiKeyInput)]
    /\ notification' = Notice("API key saved successfully!", "success")
    /\ apiKeyInput' = Mask

\* saveApiKey(), app.js:454-464
saveApiKey ==
    LET apiKey == trim(apiKeyInput)
    IN  IF apiKey # <<>> /\ apiKey # Mask
        THEN /\ localStorage' = [localStorage EXCEPT
                                    !["nanogpt_api_key"] = Item(apiKey)]
             /\ notification' = Notice("API key saved successfully!", "success")
             /\ apiKeyInput' = Mask
        ELSE /\ notification' = Notice("Please enter a valid API key", "error")
             /\ UNCHANGED <<localStorage, apiKeyInput>>

\* click on #saveApiKeyBtn, app.js:80
SaveApiKeyClick ==
    /\ page = "browser"
    /\ saveApiKey
    /\ UNCHANGED <<listVars, detailVars, timerVars, autoRefreshChecked,
                   settingsModal>>

\* clearApiKey(), app.js:466-470
clearApiKey ==
    /\ localStorage' = [localStorage EXCEPT !["nanogpt_api_key"] = NoItem]
    /\ apiKeyInput' = <<>>
    /\ notification' = Notice("API key cleared", "info")

\* click on #clearApiKeyBtn, app.js:81
ClearApiKeyClick ==
    /\ page = "browser"
    /\ clearApiKey
    /\ UNCHANGED <<listVars, detailVars, timerVars, autoRefreshChecked,
                   settingsModal>>

(***************************************************************************)
(* ModelBrowser: the model-detail modal.                                   *)
(***************************************************************************)
\* #modalTitle textContent
Title(kind, text) == [kind |-> kind, text |-> text]
NoTitle == Title("initial", <<>>)

\* #modalContent innerHTML: nothing yet, a model's details, or an error
Content(kind, modelId, message) ==
    [kind |-> kind, modelId |-> modelId, message |-> message]
NoContent == Content("none", <<>>, "")

\* a fetch of /api/models/<modelId> in flight, app.js:213
DetailRequest(n, modelId) == [id |-> n, modelId |-> modelId]

\* history: the detail response handled last, and whether the modal was
\* displayed when it arrived
DetailArrived(r) == [id |-> r.id, modelId |-> r.modelId, shown |-> modelModal]
NoDetail == [id |-> 0, modelId |-> <<>>, shown |-> FALSE]

\* showModelDetails(modelId) up to the await of fetch, app.js:207-213
showModelDetails(modelId) ==
    /\ modalTitle' = Title("loading", <<>>)
    /\ modalContentShown' = FALSE
    /\ modalLoading' = TRUE
    /\ modelModal' = TRUE
    /\ detailInflight' = detailInflight \cup {DetailRequest(nextDetail, modelId)}
    /\ nextDetail' = nextDetail + 1

\* click on a model card, app.js:196-204: the cards are those of the
\* containers, bound by renderModels
CardClick(i) ==
    /\ page = "browser"
    /\ nextDetail <= MaxDetails
    /\ i \in 1..Len(modelsGrid)
    /\ lastClicked' = modelsGrid[i].modelId
    /\ showModelDetails(modelsGrid[i].modelId)
    /\ UNCHANGED <<listVars, refreshVars, settingsVars, notification,
                   modalContent, lastDetail>>

\* renderModelDetails(model), app.js:229-305
renderModelDetails(model) ==
    /\ modalTitle' = Title("model", OrElse(model.name, model.id))
    /\ modalLoading' = FALSE
    /\ modalContentShown' = TRUE
    /\ modalContent' = Content("details", model.id, "")

\* showModalError(message), app.js:307-317
showModalError(message) ==
    /\ modalLoading' = FALSE
    /\ modalContent' = Content("error", <<>>, message)
    /\ modalContentShown' = TRUE

\* showModelDetails after the awaits, data.success true, app.js:214-217;
\* the server answers with the model asked for
DetailSuccess(r, model) ==
    /\ page = "browser"
    /\ r \in detailInflight
    /\ model.id = r.modelId
    /\ detailInflight' = detailInflight \ {r}
    /\ lastDetail' = DetailArrived(r)
    /\ renderModelDetails(model)
    /\ UNCHANGED <<listVars, refreshVars, settingsVars, notification,
                   modelModal, nextDetail, lastClicked>>

\* showModelDetails after the awaits, data.success false, app.js:218-221
DetailRejected(r) ==
    /\ page = "browser"
    /\ r \in detailInflight
    /\ detailInflight' = detailInflight \ {r}
    /\ lastDetail' = DetailArrived(r)
    /\ modalTitle' = Title("error", <<>>)
    /\ showModalError("Failed to load model details")
    /\ UNCHANGED <<listVars, refreshVars, settingsVars, notification,
                   modelModal, nextDetail, lastClicked>>

\* showModelDetails, fetch or response.json() throws, app.js:222-226
DetailThrows(r) ==
    /\ page = "browser"
    /\ r \in detailInflight
    /\ detailInflight' = detailInflight \ {r}
    /\ lastDetail' = DetailArrived(r)
    /\ modalTitle' = Title("error", <<>>)
    /\ showModalError("Network error loading model details")
    /\ UNCHANGED <<listVars, refreshVars, settingsVars, notification,
                   modelModal, nextDetail, lastClicked>>

\* hideModelModal that leaves the modal as it is
hideModelModal_keepsOpen == modelModal' = modelModal

\* hideModelModal(), app.js:319-321
hideModelModal == modelModal' = FALSE

\* click on #closeModal, app.js:76
CloseModalClick ==
    /\ page = "browser"
    /\ modelModal
    /\ hideModelModal
    /\ UNCHANGED <<listVars, refreshVars, settingsVars, notification,
                   modalTitle, modalLoading, modalContentShown, modalContent,
                   detailInflight, nextDetail, lastClicked, lastDetail>>

\* click on the backdrop of #modelModal, app.js:84-86
ModalBackdropClick ==
    /\ page = "browser"
    /\ modelModal
    /\ hideModelModal
    /\ UNCHANGED <<listVars, refreshVars, settingsVars, notification,
                   modalTitle, modalLoading, modalContentShown, modalContent,
                   detailInflight, nextDetail, lastClicked, lastDetail>>

\* 'keydown' of Escape, app.js:93-98
EscapeKey ==
    /\ page = "browser"
    /\ hideModelModal
    /\ hideSettings
    /\ UNCHANGED <<listVars, refreshVars, apiKeyInput, notification,
                   modalTitle, modalLoading, modalContentShown, modalContent,
                   detailInflight, nextDetail, lastClicked, lastDetail>>

(***************************************************************************)
(* Construction.                                                           *)
(***************************************************************************)
\* new ModelBrowser() / new CostComparison() issue request 1
FirstRequest == [id |-> 1, trigger |-> "constructor", issuedModels |-> <<>>,
                 issuedFiltered |-> <<>>]

\* what both constructors leave, and the parts of the page that belong to
\* the other controller
InitCommon ==
    /\ models = <<>>
    /\ filteredModels = <<>>
    /\ loadingState = TRUE
    /\ errorState = FALSE
    /\ emptyState = FALSE
    /\ errorMessage = ""
    /\ inflight = {FirstRequest}
    /\ nextRequest = 2
    /\ lastArrived = NoResponse
    /\ searchCalls = 0
    /\ modelsGrid = <<>>
    /\ modelsList = <<>>
    /\ currentView = "grid"
    /\ gridDisplay = ""
    /\ listDisplay = ""
    /\ gridViewBtnActive = TRUE
    /\ listViewBtnActive = FALSE
    /\ searchInput = <<>>
    /\ filterSelect = s_all
    /\ searchTimeout = NoTimer
    /\ timers = {}
    /\ autoRefreshChecked = FALSE
    /\ currentSort = "cost"
    /\ currentProviderFilter = s_all
    /\ leaderboardContent = <<>>
    /\ leaderboardContainer = FALSE
    /\ modelCount = 0
    /\ avgCost = <<0, 0>>
    /\ settingsModal = FALSE
    /\ apiKeyInput = <<>>
    /\ notification = NoNotice
    /\ modelModal = FALSE
    /\ modalTitle = NoTitle
    /\ modalLoading = FALSE
    /\ modalContentShown = FALSE
    /\ modalContent = NoContent
    /\ detailInflight = {}
    /\ nextDetail = 1
    /\ lastClicked = <<>>
    /\ lastDetail = NoDetail

\* new ModelBrowser(), app.js:7-18: the first loadModels() is in flight and
\* initializeSettings() has read local storage
InitBrowser ==
    /\ page = "browser"
    /\ InitCommon
    /\ \E stored \in {NULL, "true", "false"} :
          /\ localStorage = [k \in {"auto_refresh", "nanogpt_api_key"} |->
                                IF k = "auto_refresh" THEN stored ELSE NoItem]
          /\ intervals = initializeSettings(stored)[1]
          /\ autoRefreshInterval = initializeSettings(stored)[2]
          /\ timerSeq = Cardinality(intervals)

\* new CostComparison(), compare.js:7-16: the first loadComparisonData() is
\* in flight
InitCompare ==
    /\ page = "compare"
    /\ InitCommon
    /\ localStorage = [k \in {"auto_refresh", "nanogpt_api_key"} |->
                          IF k = "auto_refresh" THEN NULL ELSE NoItem]
    /\ intervals = {}
    /\ autoRefreshInterval = NoTimer
    /\ timerSeq = 0

Init == InitBrowser \/ InitCompare

\* the answers of the two list endpoints in a behaviour of a page
ServerLists == SeqsUpTo(ModelPool, MaxModels)
CompareLists == SeqsUpTo(FreePool, MaxModels)
\* what the user types and selects in a behaviour of a page
PageQueries == {<<>>, <<" ","G","P","T"," ">>}
PageFilterTypes == {s_all, s_chatgpt, s_other}

Next ==
    \/ RefreshClick
    \/ RetryClick
    \/ AutoRefreshTick
    \/ \E r \in inflight : \E data \in ServerLists : LoadModelsSuccess(r, data)
    \/ \E r \in inflight : \E e \in ServerErrors : LoadModelsRejected(r, e)
    \/ \E r \in inflight : LoadModelsThrows(r)
    \/ \E v \in PageQueries : SearchInput(v)
    \/ \E t \in timers : SearchTimerFires(t)
    \/ \E f \in PageFilterTypes : FilterChange(f)
    \/ \E v \in Views : ViewClick(v)
    \/ AutoRefreshChange
    \/ CC_RefreshClick
    \/ CC_RetryClick
    \/ \E r \in inflight : \E data \in CompareLists : CC_LoadSuccess(r, data)
    \/ \E r \in inflight : \E e \in ServerErrors : CC_LoadRejected(r, e)
    \/ \E r \in inflight : CC_LoadThrows(r)
    \/ \E p \in ProviderFilters : ProviderFilterChange(p)
    \/ \E s \in SortTypes : SortChange(s)

Spec == Init /\ [][Next]_vars


(***************************************************************************)
(* The model browser on one loaded list: the first response carries any    *)
(* list over FilterPool, then the user searches and filters.               *)
(***************************************************************************)
FilterLists == SeqsUpTo(FilterPool, MaxFilterModels)

InitFilter == InitBrowser /\ localStorage["auto_refresh"] = NULL

NextFilter ==
    \/ \E r \in inflight : \E data \in FilterLists : LoadModelsSuccess(r, data)
    \/ \E v \in FilterQueries : SearchInput(v)
    \/ \E t \in timers : SearchTimerFires(t)
    \/ \E f \in FilterTypes : FilterChange(f)

SpecFilter == InitFilter /\ [][NextFilter]_vars

(***************************************************************************)
(* The cost comparison page on longer lists.                               *)
(***************************************************************************)
LeaderboardLists ==
    {q \in SeqsUpTo(ComparePool, MaxCompareModels) :
        \A i, j \in 1..Len(q) : q[i] = q[j] => i = j}

NextCompare ==
    \/ CC_RefreshClick
    \/ CC_RetryClick
    \/ \E r \in inflight : \E data \in LeaderboardLists : CC_LoadSuccess(r, data)
    \/ \E r \in inflight : \E e \in ServerErrors : CC_LoadRejected(r, e)
    \/ \E r \in inflight : CC_LoadThrows(r)
    \/ \E p \in ProviderFilters : ProviderFilterChange(p)
    \/ \E s \in SortTypes : SortChange(s)

SpecCompare == InitCompare /\ [][NextCompare]_vars


(***************************************************************************)
(* The settings modal: the API key, auto-refresh and the ways to open and  *)
(* close the modal, from every content local storage can have at start.    *)
(***************************************************************************)
\* keys: two plain ones, and 31 bullets, one short of the mask
Key1 == <<"k","1">>
Key2 == <<"k","2">>
ShortMask == [i \in 1..(MaskLength - 1) |-> Bullet]
\* what the user leaves in #apiKeyInput
KeyInputs == {<<>>, <<" ">>, <<" ">> \o Key1 \o <<" ">>, Key2, ShortMask,
              <<" ">> \o Mask}

\* new ModelBrowser() on a page whose local storage holds anything the
\* program stores
InitSettings ==
    /\ page = "browser"
    /\ InitCommon
    /\ \E stored \in {NULL, "true", "false"} :
       \E key \in {NoItem, Item(Key2)} :
          /\ localStorage = [k \in {"auto_refresh", "nanogpt_api_key"} |->
                                IF k = "auto_refresh" THEN stored ELSE key]
          /\ intervals = initializeSettings(stored)[1]
          /\ autoRefreshInterval = initializeSettings(stored)[2]
          /\ timerSeq = Cardinality(intervals)

NextSettings ==
    \/ SettingsClick
    \/ CloseSettingsClick
    \/ SettingsBackdropClick
    \/ EscapeKey
    \/ \E v \in KeyInputs : ApiKeyTyped(v)
    \/ SaveApiKeyClick
    \/ ClearApiKeyClick
    \/ AutoRefreshChange

SpecSettings == InitSettings /\ [][NextSettings]_vars

(***************************************************************************)
(* The browser page with every kind of operation: the list is loaded,      *)
(* searched, filtered and shown in either view, the modals are opened and  *)
(* closed, the settings are changed.                                       *)
(***************************************************************************)
NextStorage ==
    \/ RefreshClick
    \/ \E r \in inflight : LoadModelsSuccess(r, <<M_claude>>)
    \/ \E r \in inflight : LoadModelsThrows(r)
    \/ SearchInput(<<" ","G","P","T"," ">>)
    \/ \E t \in timers : SearchTimerFires(t)
    \/ \E f \in {s_all, s_chatgpt} : FilterChange(f)
    \/ \E v \in Views : ViewClick(v)
    \/ AutoRefreshChange
    \/ SettingsClick
    \/ CloseSettingsClick
    \/ SettingsBackdropClick
    \/ ApiKeyTyped(<<" ">> \o Key1 \o <<" ">>)
    \/ SaveApiKeyClick
    \/ ClearApiKeyClick
    \/ \E i \in 1..Len(modelsGrid) : CardClick(i)
    \/ CloseModalClick
    \/ ModalBackdropClick
    \/ EscapeKey

SpecStorage == InitFilter /\ [][NextStorage]_vars

(***************************************************************************)
(* The model-detail modal: a list of two cards, clicks on them, the        *)
(* answers to the detail fetches in any order, and the ways to close.      *)
(***************************************************************************)
NextModal ==
    \/ \E r \in inflight : LoadModelsSuccess(r, <<M_gpt, M_claude>>)
    \/ \E i \in 1..Len(modelsGrid) : CardClick(i)
    \/ \E r \in detailInflight : \E m \in ModelPool : DetailSuccess(r, m)
    \/ \E r \in detailInflight : DetailRejected(r)
    \/ \E r \in detailInflight : DetailThrows(r)
    \/ CloseModalClick
    \/ ModalBackdropClick
    \/ EscapeKey
    \/ SettingsClick
    \/ CloseSettingsClick

SpecModal == InitFilter /\ [][NextModal]_vars

(***************************************************************************)
(* Both pages on lists in which a model may occur twice: reloads that      *)
(* succeed or fail, and the events that recompute filteredModels.          *)
(***************************************************************************)
\* the answers of /api/models and /api/models/compare
RepeatLists == SeqsUpTo(ModelPool, MaxRepeatModels)
RepeatCompareLists == SeqsUpTo({K_zero, K_free}, MaxRepeatModels)

InitLists == InitFilter \/ InitCompare

NextLists ==
    \/ RefreshClick
    \/ \E r \in inflight : \E data \in RepeatLists : LoadModelsSuccess(r, data)
    \/ \E r \in inflight : LoadModelsRejected(r, "")
    \/ SearchInput(<<" ","G","P","T"," ">>)
    \/ \E t \in timers : SearchTimerFires(t)
    \/ \E f \in PageFilterTypes : FilterChange(f)
    \/ CC_RefreshClick
    \/ \E r \in inflight : \E data \in RepeatCompareLists : CC_LoadSuccess(r, data)
    \/ \E r \in inflight : CC_LoadRejected(r, "")
    \/ \E p \in ProviderFilters : ProviderFilterChange(p)
    \/ \E s \in SortTypes : SortChange(s)

SpecLists == InitLists /\ [][NextLists]_vars

(***************************************************************************)
(* Steps, as the properties below recognise them.                          *)
(***************************************************************************)
\* a response was handled: its request left the set of fetches in flight
Answered == inflight \ inflight'
\* the fetches this step issued
Issued == inflight' \ inflight
\* a response was handled that was no successful one
FailureHandled == Answered # {} /\ lastArrived' = lastArrived
\* a successful response was handled
SuccessHandled == lastArrived' # lastArrived

(***************************************************************************)
(* C1.  As stated: when a model-list fetch fails, in both controllers the  *)
(* error panel is shown with a message, the loading indicator is hidden    *)
(* and this.models and this.filteredModels have the values they had before *)
(* the fetch was issued.                                                   *)
(***************************************************************************)
C1_Original ==
    [][FailureHandled =>
          \A r \in Answered :
              /\ errorState'
              /\ errorMessage' # ""
              /\ ~loadingState'
              /\ models' = r.issuedModels
              /\ filteredModels' = r.issuedFiltered]_vars

(***************************************************************************)
(* C1, amended.  When a model-list fetch fails, in both controllers the    *)
(* error panel is shown with a message, the loading indicator is hidden    *)
(* and handling the failure leaves this.models and this.filteredModels as  *)
(* they were when the failure arrived.                                     *)
(***************************************************************************)
C1_FailureKeepsLists ==
    [][FailureHandled =>
          /\ errorState'
          /\ errorMessage' # ""
          /\ ~loadingState'
          /\ models' = models
          /\ filteredModels' = filteredModels]_vars

\* request 1, issued on the empty lists, failed after the answer of request 2
\* had filled them
C1_Witness ==
    /\ errorState
    /\ ~loadingState
    /\ errorMessage # ""
    /\ inflight = {}
    /\ lastArrived.id = 2
    /\ models # <<>>
    /\ filteredModels = models

(***************************************************************************)
(* C2.  As stated: once a model-list fetch has failed, a new fetch is      *)
(* issued only by a click on the refresh or the retry button.              *)
(***************************************************************************)
C2_Original ==
    [][errorMessage # "" =>
          \A r \in Issued : r.trigger \in {"refreshClick", "retryClick"}]_vars

(***************************************************************************)
(* C2, amended.  Handling a failed fetch issues no fetch, and a fetch is   *)
(* issued only by a click on the refresh or the retry button or by a tick  *)
(* of the auto-refresh timer while auto-refresh is enabled.                *)
(***************************************************************************)
C2_NoRetry ==
    [][/\ FailureHandled => (Issued = {} /\ nextRequest' = nextRequest)
       /\ \A r \in Issued :
             /\ r.trigger \in {"refreshClick", "retryClick", "autoRefreshTick"}
             /\ r.trigger = "autoRefreshTick" =>
                   /\ intervals # {}
                   /\ localStorage["auto_refresh"] = "true"]_vars

\* request 1 failed, and then a tick of the auto-refresh timer issued
\* request 2
C2_Witness ==
    /\ loadingState
    /\ ~errorState
    /\ errorMessage # ""
    /\ \E r \in inflight : r.id = 2 /\ r.trigger = "autoRefreshTick"

(***************************************************************************)
(* C3.  Fetches of the model list are neither cancelled nor ordered:       *)
(* issuing a fetch leaves the earlier ones in flight, every successful     *)
(* response is applied to this.models and this.filteredModels (and its     *)
(* cards are rendered) when it arrives, whichever request it answers, so   *)
(* this.models is always the list of the response that arrived last.       *)
(***************************************************************************)
C3_LastArrivalWins ==
    /\ [](page = "browser" => models = lastArrived.data)
    /\ [][page = "browser" =>
             /\ Issued # {} => inflight \subseteq inflight'
             /\ SuccessHandled =>
                   /\ models' = lastArrived'.data
                   /\ filteredModels' = lastArrived'.data
                   /\ lastArrived'.data # <<>> =>
                         /\ modelsGrid' = Cards(lastArrived'.data)
                         /\ modelsList' = Cards(lastArrived'.data)]_vars

\* both fetches are answered; the answer of request 1 arrived after the one
\* of request 2, and its list is the one held
C3_Witness ==
    /\ page = "browser"
    /\ inflight = {}
    /\ lastArrived.id = 1
    /\ lastArrived.newest = 2
    /\ models = lastArrived.data
    /\ models # <<>>
    /\ modelsGrid = Cards(models)

(***************************************************************************)
(* C4.  Search input is debounced: at most one search timer is pending, an *)
(* input event leaves exactly one pending and calls nothing, handleSearch  *)
(* is called only by an expiring timer, which leaves none pending, and it  *)
(* is called with the text the search box holds then.                      *)
(***************************************************************************)
C4_Debounce ==
    /\ [](/\ Cardinality(timers) <= 1
          /\ timers \subseteq {searchTimeout}
          /\ searchCalls <= timerSeq)
    /\ [][/\ searchInput' # searchInput =>
                /\ timers' = {searchTimeout'}
                /\ searchTimeout' \notin timers
                /\ searchCalls' = searchCalls
                /\ filteredModels' = filteredModels
          /\ searchCalls' # searchCalls =>
                /\ searchCalls' = searchCalls + 1
                /\ timers # {}
                /\ timers' = {}
                /\ searchInput' = searchInput
                /\ filteredModels' = searchResult(models, searchInput)]_vars

\* two input events in a row (timers 1 and 2, no interval timer was ever
\* created), one handleSearch call, nothing pending
C4_Witness ==
    /\ page = "browser"
    /\ localStorage["auto_refresh"] = NULL
    /\ timerSeq = 2
    /\ searchTimeout = 2
    /\ timers = {}
    /\ searchCalls = 1
    /\ filteredModels = searchResult(models, searchInput)

(***************************************************************************)
(* C5.  Auto-refresh is optional and single: at most one interval timer is *)
(* active, one is active exactly when local storage holds 'true' under     *)
(* 'auto_refresh', and a tick calls loadModels only while that is so.      *)
(***************************************************************************)
C5_AutoRefresh ==
    /\ [](page = "browser" =>
             /\ Cardinality(intervals) <= 1
             /\ intervals \subseteq {autoRefreshInterval}
             /\ intervals # {} <=> localStorage["auto_refresh"] = "true")
    /\ [][\A r \in Issued :
             r.trigger = "autoRefreshTick" =>
                /\ intervals # {}
                /\ localStorage["auto_refresh"] = "true"
                /\ \A q \in inflight' : q.id <= r.id]_vars

\* auto-refresh was enabled, a tick issued a fetch, and auto-refresh was
\* disabled again
C5_Witness ==
    /\ page = "browser"
    /\ localStorage["auto_refresh"] = "false"
    /\ intervals = {}
    /\ autoRefreshInterval = NoTimer
    /\ ~autoRefreshChecked
    /\ \E r \in inflight : r.trigger = "autoRefreshTick"

(***************************************************************************)
(* C6.  The loading indicator is visible as long as a fetch of the model   *)
(* list is in flight, and hidden once none is.                             *)
(***************************************************************************)
C6_LoadingWhileInFlight ==
    /\ inflight # {} => loadingState
    /\ inflight = {} => ~loadingState

(***************************************************************************)
(* Selections of a list, stated without the code's filter.                 *)
(***************************************************************************)
\* fm is the elements of ms at the indexes idx, in the order of ms
IsSelection(fm, ms, idx) ==
    /\ Len(fm) = Cardinality(idx)
    /\ \A i \in idx : fm[Cardinality({j \in idx : j <= i})] = ms[i]

\* t occurs in field when letter case is ignored
ContainsCI(field, t) ==
    \E start \in 1..(Len(field) - Len(t) + 1) :
        \A k \in 1..Len(t) :
            ToLowerChar(field[start + k - 1]) = ToLowerChar(t[k])

\* the text of a field that may be missing
FieldText(model, field) == model[field]

\* the models of ms whose id, description, name or provider contains t
SearchHits(ms, t) ==
    {i \in 1..Len(ms) :
        \E field \in {"id", "description", "name", "owned_by"} :
            ContainsCI(FieldText(ms[i], field), t)}

(***************************************************************************)
(* C7.  handleSearch(q), with t the lower-cased, trimmed q, sets           *)
(* filteredModels to the models of this.models whose id, description, name *)
(* or provider contains t whatever the letter case, in their order in      *)
(* this.models, to all of this.models when t is empty, and leaves          *)
(* this.models as it is.                                                   *)
(***************************************************************************)
C7_HandleSearch ==
    [][searchCalls' # searchCalls =>
          LET t == trim(toLowerCase(searchInput))
          IN  /\ models' = models
              /\ t = <<>> => filteredModels' = models
              /\ t # <<>> =>
                    IsSelection(filteredModels', models, SearchHits(models, t))]_vars

\* the search for ' GPT ' has kept the model whose description is 'GPT like'
\* and dropped the other one
C7_Witness ==
    /\ searchInput = <<" ", "G", "P", "T", " ">>
    /\ searchCalls >= 1
    /\ timers = {}
    /\ filterSelect = s_all
    /\ models = <<M_claude, M_llama>>
    /\ filteredModels = <<M_llama>>

(***************************************************************************)
(* C8.  Filtering by type partitions the model list: getModelType gives    *)
(* every id one of the five type names, handleFilter(f) for one of the     *)
(* five types sets filteredModels to the models of that type in their      *)
(* order, handleFilter('all') to all models, and the five typed results    *)
(* are pairwise disjoint and contain every model between them.             *)
(***************************************************************************)
TypeNames == {s_ChatGPT, s_Claude, s_Gemini, s_DeepSeek, s_Other}
TypedFilters == {s_chatgpt, s_claude, s_gemini, s_deepseek, s_other}
TypeOfFilter(f) ==
    CASE f = s_chatgpt  -> s_ChatGPT
      [] f = s_claude   -> s_Claude
      [] f = s_gemini   -> s_Gemini
      [] f = s_deepseek -> s_DeepSeek
      [] f = s_other    -> s_Other

ModelsOfType(ms, f) ==
    {i \in 1..Len(ms) : getModelType(ms[i].id) = TypeOfFilter(f)}

\* the five typed results of handleFilter on ms partition ms
C8_Partition(ms) ==
    /\ \A i \in 1..Len(ms) : getModelType(ms[i].id) \in TypeNames
    /\ \A i \in 1..Len(ms) :
          Cardinality({f \in TypedFilters :
              \E j \in 1..Len(filterResult(ms, f)) :
                  filterResult(ms, f)[j] = ms[i]}) = 1
    /\ \A f \in TypedFilters :
          IsSelection(filterResult(ms, f), ms, ModelsOfType(ms, f))
    /\ filterResult(ms, s_all) = ms

C8_FilterPartitions ==
    [][/\ models' # models => C8_Partition(models')
       /\ filterSelect' # filterSelect =>
             /\ models' = models
             /\ filterSelect' = s_all => filteredModels' = models
             /\ filterSelect' \in TypedFilters =>
                   IsSelection(filteredModels', models,
                               ModelsOfType(models, filterSelect'))]_vars

\* of the ids 'GPT' and 'gpt4' the filter 'other' has kept the first
C8_Witness ==
    /\ filterSelect = s_other
    /\ searchCalls = 0
    /\ searchTimeout = NoTimer
    /\ models = <<M_upper, M_gpt>>
    /\ filteredModels = <<M_upper>>

(***************************************************************************)
(* C9.  On the cost-comparison page filteredModels is always the models of *)
(* this.models whose provider is currentProviderFilter (all of them for    *)
(* 'all'), arranged by currentSort: non-decreasing completion cost for     *)
(* 'cost', non-increasing for 'cost-desc', by provider for 'provider', by  *)
(* name for 'name'; and the rank of each row shown is its position.        *)
(***************************************************************************)
C9_Cost(model) ==
    IF model.pricing.kind = "number" THEN model.pricing.completion ELSE 0

C9_Occurrences(q, x) == Cardinality({i \in 1..Len(q) : q[i] = x})

C9_InOrder(a, b, sortType) ==
    CASE sortType = "cost"      -> C9_Cost(a) <= C9_Cost(b)
      [] sortType = "cost-desc" -> C9_Cost(a) >= C9_Cost(b)
      [] sortType = "provider"  -> localeCompare(a.provider, b.provider) <= 0
      [] sortType = "name"      ->
            (a.name # NoName /\ b.name # NoName) =>
                localeCompare(a.name, b.name) <= 0

C9_SortAndFilterCompose ==
    page = "compare" =>
        /\ \A x \in ComparePool \cup FreePool :
              C9_Occurrences(filteredModels, x) =
                 IF currentProviderFilter = s_all
                       \/ x.provider = currentProviderFilter
                 THEN C9_Occurrences(models, x)
                 ELSE 0
        /\ \A i, j \in 1..Len(filteredModels) :
              i < j => C9_InOrder(filteredModels[i], filteredModels[j],
                                  currentSort)
        /\ leaderboardContainer =>
              /\ Len(leaderboardContent) = Len(filteredModels)
              /\ \A i \in 1..Len(filteredModels) :
                    /\ leaderboardContent[i].rank = i
                    /\ leaderboardContent[i].modelId = filteredModels[i].id

(***************************************************************************)
(* C10.  View modes are exclusive: once setView has been called, exactly   *)
(* one of the grid and the list container is visible, exactly one of the   *)
(* two view buttons is active, both agree with currentView, and setView    *)
(* changes neither this.models, this.filteredModels nor the rendered       *)
(* cards.                                                                  *)
(***************************************************************************)
C10_ExclusiveViews ==
    /\ []((gridDisplay # "" \/ listDisplay # "") =>
             /\ currentView \in Views
             /\ (gridDisplay = "none") # (listDisplay = "none")
             /\ gridViewBtnActive # listViewBtnActive
             /\ (gridDisplay # "none") <=> (currentView = "grid")
             /\ (listDisplay # "none") <=> (currentView = "list")
             /\ gridViewBtnActive <=> (currentView = "grid"))
    /\ [][viewVars' # viewVars =>
             UNCHANGED <<models, filteredModels, modelsGrid, modelsList>>]_vars

\* the list view was chosen while cards were rendered
C10_Witness ==
    /\ currentView = "list"
    /\ gridDisplay = "none"
    /\ listDisplay = "grid"
    /\ listViewBtnActive
    /\ ~gridViewBtnActive
    /\ models # <<>>
    /\ modelsGrid = Cards(filteredModels)
    /\ modelsGrid # <<>>

(***************************************************************************)
(* C11.  saveApiKey stores a key only when the trimmed input is non-empty  *)
(* and is not the mask: then it writes the trimmed value under             *)
(* 'nanogpt_api_key', puts the mask into the input and shows a success     *)
(* notification; otherwise it leaves local storage alone and shows an      *)
(* error notification.  So the stored key is never empty and never the     *)
(* mask, the program never puts anything but the mask or nothing into the  *)
(* input, and clearApiKey removes the stored key.                          *)
(***************************************************************************)
StoredKey == localStorage["nanogpt_api_key"]

C11_SaveApiKey ==
    /\ [](page = "browser" =>
             (StoredKey.stored =>
                 StoredKey.value # <<>> /\ StoredKey.value # Mask))
    /\ [][/\ SaveApiKeyClick =>
                IF trim(apiKeyInput) # <<>> /\ trim(apiKeyInput) # Mask
                THEN /\ localStorage' = [localStorage EXCEPT
                            !["nanogpt_api_key"] = Item(trim(apiKeyInput))]
                     /\ apiKeyInput' = Mask
                     /\ notification'.type = "success"
                ELSE /\ localStorage' = localStorage
                     /\ notification'.type = "error"
          /\ ClearApiKeyClick => ~localStorage'["nanogpt_api_key"].stored
          /\ (/\ apiKeyInput' # apiKeyInput
              /\ ~(\E v \in KeyInputs : ApiKeyTyped(v))) =>
                apiKeyInput' \in {Mask, <<>>}]_vars

\* ' k1 ' was typed and saved: 'k1' is stored, the input shows the mask
C11_Witness ==
    /\ StoredKey = Item(Key1)
    /\ apiKeyInput = Mask
    /\ notification = Notice("API key saved successfully!", "success")

(***************************************************************************)
(* C12.  The program writes or removes only the local-storage entries      *)
(* 'nanogpt_api_key' and 'auto_refresh': 'auto_refresh' changes only in    *)
(* toggleAutoRefresh, 'nanogpt_api_key' only in saveApiKey and             *)
(* clearApiKey, and loading, searching, filtering, switching view and      *)
(* opening or closing a modal leave local storage as it is.                *)
(***************************************************************************)
C12_StorageFrame ==
    [][/\ DOMAIN localStorage' = {"auto_refresh", "nanogpt_api_key"}
       /\ localStorage'["auto_refresh"] # localStorage["auto_refresh"] =>
             AutoRefreshChange
       /\ localStorage'["nanogpt_api_key"] # localStorage["nanogpt_api_key"] =>
             SaveApiKeyClick \/ ClearApiKeyClick
       /\ (\/ inflight' # inflight
           \/ lastArrived' # lastArrived
           \/ searchInput' # searchInput
           \/ searchCalls' # searchCalls
           \/ filterSelect' # filterSelect
           \/ viewVars' # viewVars
           \/ settingsModal' # settingsModal
           \/ modelModal' # modelModal) =>
             localStorage' = localStorage]_vars

\* both entries were written, and the list was loaded, searched, filtered,
\* shown as a list and a card's modal opened
C12_Witness ==
    /\ StoredKey = Item(Key1)
    /\ localStorage["auto_refresh"] = "true"
    /\ lastArrived.id = 1
    /\ searchCalls = 1
    /\ filterSelect = s_chatgpt
    /\ currentView = "list"
    /\ modelModal
    /\ settingsModal

(***************************************************************************)
(* C13.  Escape hides both modals, and once the model-detail modal is      *)
(* hidden (by Escape, its close button or its backdrop) it stays hidden    *)
(* until the next click on a card, even when a detail response that was    *)
(* in flight arrives afterwards.                                           *)
(***************************************************************************)
C13_HiddenStaysHidden ==
    [][/\ EscapeKey => ~modelModal' /\ ~settingsModal'
       /\ (CloseModalClick \/ ModalBackdropClick) => ~modelModal'
       /\ (~modelModal /\ modelModal') =>
             \E i \in 1..Len(modelsGrid) : CardClick(i)
       /\ (~modelModal /\ detailInflight' # detailInflight
                       /\ nextDetail' = nextDetail) => ~modelModal']_vars

\* a detail response arrived while the modal was hidden, filled in the
\* details, and the modal is still hidden
C13_Witness ==
    /\ ~modelModal
    /\ lastDetail.id # 0
    /\ ~lastDetail.shown
    /\ modalContent.kind = "details"
    /\ detailInflight = {}

(***************************************************************************)
(* C14.  On the model browser page, once no load is in flight and no       *)
(* search timer is pending, filteredModels is exactly the models of        *)
(* this.models that match both the content of the search box and the       *)
(* selection of the type filter.                                           *)
(***************************************************************************)
\* the models of ms that match the search box and the type filter
BothMatch(ms, box, f) ==
    LET t == trim(toLowerCase(box))
    IN  {i \in 1..Len(ms) :
            /\ t # <<>> => i \in SearchHits(ms, t)
            /\ f # s_all => i \in ModelsOfType(ms, f)}

C14_SearchAndFilter ==
    (page = "browser" /\ inflight = {} /\ timers = {}) =>
        IsSelection(filteredModels, models,
                    BothMatch(models, searchInput, filterSelect))

(***************************************************************************)
(* C15.  In both controllers at most one of the three status panels        *)
(* (loading, error, empty) is visible in every reachable state.            *)
(***************************************************************************)
VisiblePanels ==
    {p \in {"loading", "error", "empty"} :
        \/ p = "loading" /\ loadingState
        \/ p = "error" /\ errorState
        \/ p = "empty" /\ emptyState}

C15_OnePanel == Cardinality(VisiblePanels) <= 1

(***************************************************************************)
(* C16.  After every renderModels call the grid and the list container     *)
(* hold exactly one card per element of filteredModels, in the same        *)
(* order, the same in both containers; and whenever the empty-state panel  *)
(* is visible no model card is displayed.                                  *)
(***************************************************************************)
\* the steps of the model browser that end in renderModels: a search, a
\* filter change, a load that brought another list
RendersModels ==
    /\ page = "browser"
    /\ \/ searchCalls' # searchCalls
       \/ filterSelect' # filterSelect
       \/ models' # models

C16_CardsMatchList ==
    /\ []((page = "browser" /\ emptyState) =>
              (modelsGrid = <<>> /\ modelsList = <<>>))
    /\ [][RendersModels =>
              /\ modelsGrid' = Cards(filteredModels')
              /\ modelsList' = modelsGrid']_vars

(***************************************************************************)
(* C17.  Whenever the model-detail modal is visible and shows details      *)
(* (not the loading spinner), the details are those of the model whose     *)
(* card was clicked most recently, in whatever order the responses of      *)
(* earlier and later detail fetches arrive.                                *)
(***************************************************************************)
ShowsDetails ==
    /\ modelModal
    /\ ~modalLoading
    /\ modalContentShown
    /\ modalContent.kind = "details"

C17_DetailsOfLastClick ==
    (page = "browser" /\ ShowsDetails) => modalContent.modelId = lastClicked

(***************************************************************************)
(* C18.  In both controllers filteredModels contains only elements of the  *)
(* current this.models, each at most as often as it occurs there, and      *)
(* this.models is the most recently applied response: no model absent      *)
(* from that response is in filteredModels.                                *)
(***************************************************************************)
CountIn(q, x) == Cardinality({i \in 1..Len(q) : q[i] = x})

C18_ListedFromModels ==
    /\ \A i \in 1..Len(filteredModels) :
          CountIn(filteredModels, filteredModels[i])
              <= CountIn(models, filteredModels[i])
    /\ models = lastArrived.data
    /\ \A i \in 1..Len(filteredModels) :
          CountIn(lastArrived.data, filteredModels[i]) > 0

\* the first response brought one model twice and another once, the reload
\* failed, and the filter kept both copies of the first model only
C18_Witness ==
    /\ page = "browser"
    /\ lastArrived.id = 1
    /\ nextRequest = 3
    /\ inflight = {}
    /\ errorState
    /\ \E m \in ModelPool :
          /\ CountIn(models, m) = 2
          /\ Len(models) = 3
          /\ filteredModels = <<m, m>>

====
